---------------------------- MODULE Spec2Model ----------------------------
(***************************************************************************)
(* A model of plyformat (src/plyformat/plyformat.py): write_ply and        *)
(* read_ply over one stream.                                               *)
(*                                                                         *)
(* Representation.  A stream is a record [lines, bin]: the text lines read *)
(* by readline (header lines, and the data rows of an ascii file) followed *)
(* by the bytes of a binary payload.  A line is the sequence of its        *)
(* whitespace-separated tokens (what bytes.split() returns; the empty      *)
(* sequence is a blank line) and a token is the sequence of its            *)
(* characters, so that formatting and parsing of numerals and the          *)
(* predicates isdigit / isidentifier are computed, not assumed.  A byte is *)
(* a number in 0..255.  Numbers are integers: the data of the documents    *)
(* considered is integer valued, also in the floating kinds.               *)
(***************************************************************************)
EXTENDS Integers, Sequences, FiniteSets, TLC

(***************************************************************************)
(* Characters                                                              *)
(***************************************************************************)
Digits == <<"0", "1", "2", "3", "4", "5", "6", "7", "8", "9">>

DigitChars == {Digits[i] : i \in 1..10}

Letters ==
  {"a", "b", "c", "d", "e", "f", "g", "h", "i", "j", "k", "l", "m", "n", "o",
   "p", "q", "r", "s", "t", "u", "v", "w", "x", "y", "z", "A", "B", "C", "D",
   "E", "F", "G", "H", "I", "J", "K", "L", "M", "N", "O", "P", "Q", "R", "S",
   "T", "U", "V", "W", "X", "Y", "Z"}

DigitVal(c) == (CHOOSE i \in 1..10 : Digits[i] = c) - 1

RECURSIVE Pow(_, _)
Pow(b, e) == IF e = 0 THEN 1 ELSE b * Pow(b, e - 1)

Abs(v) == IF v < 0 THEN -v ELSE v

\* bytes.isdigit(): non-empty and every character an ascii digit.
isdigit(tok) == Len(tok) > 0 /\ \A i \in 1..Len(tok) : tok[i] \in DigitChars

\* str.isidentifier() on ascii text.
_isvalidid(tok) ==
  /\ Len(tok) > 0
  /\ tok[1] \in Letters \cup {"_"}
  /\ \A i \in 2..Len(tok) : tok[i] \in Letters \cup DigitChars \cup {"_"}

(***************************************************************************)
(* Numerals.  A numeral is a token.                                        *)
(***************************************************************************)
\* The decimal digits of a natural number, most significant first.
RECURSIVE NatDigits(_)
NatDigits(n) ==
  IF n < 10 THEN <<Digits[n + 1]>>
  ELSE NatDigits(n \div 10) \o <<Digits[(n % 10) + 1]>>

\* str(int), b"%d" % int, np.str_ of an integer scalar: the plain numeral.
Decimal(v) == IF v < 0 THEN <<"-">> \o NatDigits(-v) ELSE NatDigits(v)

\* The value of a string of digits (0 for the empty string).
RECURSIVE DigitsVal(_)
DigitsVal(ds) ==
  IF Len(ds) = 0 THEN 0
  ELSE 10 * DigitsVal(SubSeq(ds, 1, Len(ds) - 1)) + DigitVal(ds[Len(ds)])

AllDigits(ds) == \A i \in 1..Len(ds) : ds[i] \in DigitChars

\* A token without its sign, and the sign.
Unsigned(tok) ==
  IF Len(tok) > 0 /\ tok[1] \in {"-", "+"} THEN SubSeq(tok, 2, Len(tok)) ELSE tok

Sign(tok) == IF Len(tok) > 0 /\ tok[1] = "-" THEN -1 ELSE 1

\* int(tok) accepts: an optional sign and at least one digit.
IsIntLiteral(tok) == isdigit(Unsigned(tok))

IntValue(tok) == Sign(tok) * DigitsVal(Unsigned(tok))

\* Position of the first occurrence of character c in tok, 0 if none.
Find(tok, c) ==
  IF \E i \in 1..Len(tok) : tok[i] = c
  THEN CHOOSE i \in 1..Len(tok) : tok[i] = c /\ \A j \in 1..(i - 1) : tok[j] # c
  ELSE 0

\* The parts of a floating literal  [sign] int [. frac] [e [sign] exp] .
Mantissa(tok) ==
  LET u == Unsigned(tok)
      e == Find(u, "e")
  IN  IF e = 0 THEN u ELSE SubSeq(u, 1, e - 1)

ExpPart(tok) ==
  LET u == Unsigned(tok)
      e == Find(u, "e")
  IN  IF e = 0 THEN <<"0">> ELSE SubSeq(u, e + 1, Len(u))

IntPart(tok) ==
  LET m == Mantissa(tok)
      d == Find(m, ".")
  IN  IF d = 0 THEN m ELSE SubSeq(m, 1, d - 1)

FracPart(tok) ==
  LET m == Mantissa(tok)
      d == Find(m, ".")
  IN  IF d = 0 THEN <<>> ELSE SubSeq(m, d + 1, Len(m))

\* float(tok) accepts this (decimal literals; inf and nan are not modelled).
IsFloatLiteral(tok) ==
  /\ AllDigits(IntPart(tok)) /\ AllDigits(FracPart(tok))
  /\ Len(IntPart(tok)) + Len(FracPart(tok)) > 0
  /\ IsIntLiteral(ExpPart(tok))

\* float(tok), for a literal whose value is an integer; the integer part of
\* the value otherwise (int(float(tok)) truncates towards zero).
FloatValue(tok) ==
  LET ds == DigitsVal(IntPart(tok) \o FracPart(tok))
      sh == IntValue(ExpPart(tok)) - Len(FracPart(tok))
  IN  Sign(tok) * (IF sh >= 0 THEN ds * Pow(10, sh) ELSE ds \div Pow(10, -sh))

\* Number of decimal digits of n >= 1.
NumDigits(n) == Len(NatDigits(n))

\* ds without its trailing "0" characters.
RECURSIVE StripZeros(_)
StripZeros(ds) ==
  IF Len(ds) > 0 /\ ds[Len(ds)] = "0" THEN StripZeros(SubSeq(ds, 1, Len(ds) - 1))
  ELSE ds

\* "%g" % v (C printf, precision 6) for an integer-valued v: the plain
\* numeral below 10^6 in magnitude; otherwise six significant digits,
\* rounded half to even, in the form d.ddddde+XX with trailing zeros of the
\* fraction dropped.
GSig == 6

FormatG(v) ==
  LET a == Abs(v)
      sg == IF v < 0 THEN <<"-">> ELSE <<>>
  IN  IF a < Pow(10, GSig) THEN Decimal(v)
      ELSE
        LET e0 == NumDigits(a) - 1
            dv == Pow(10, e0 - (GSig - 1))
            q0 == a \div dv
            r0 == a % dv
            up == (2 * r0 > dv) \/ (2 * r0 = dv /\ q0 % 2 = 1)
            q1 == IF up THEN q0 + 1 ELSE q0
            ov == q1 = Pow(10, GSig)
            q == IF ov THEN q1 \div 10 ELSE q1
            e == IF ov THEN e0 + 1 ELSE e0
            ds == NatDigits(q)
            fr == StripZeros(SubSeq(ds, 2, Len(ds)))
            ex == IF e < 10 THEN <<"0">> \o NatDigits(e) ELSE NatDigits(e)
        IN  sg \o <<ds[1]>> \o (IF Len(fr) > 0 THEN <<".">> \o fr ELSE <<>>)
               \o <<"e", "+">> \o ex

\* np.str_ / str of an integer-valued floating scalar: "1.0".
FloatStr(v) == Decimal(v) \o <<".", "0">>

(***************************************************************************)
(* Type system                                                             *)
(***************************************************************************)
\* The wire names of the scalar kinds, as tokens.
T_double == <<"d", "o", "u", "b", "l", "e">>
T_float == <<"f", "l", "o", "a", "t">>
T_uchar == <<"u", "c", "h", "a", "r">>
T_char == <<"c", "h", "a", "r">>
T_ushort == <<"u", "s", "h", "o", "r", "t">>
T_short == <<"s", "h", "o", "r", "t">>
T_uint == <<"u", "i", "n", "t">>
T_int == <<"i", "n", "t">>

\* A missing result (Python's None) where a token or a sequence is expected.
None == <<>>

\* Numpy to PLY data types, in the order of the list.
_NP2PLY_MAP ==
  << <<"float64", T_double>>, <<"float32", T_float>>, <<"uint8", T_uchar>>,
     <<"int8", T_char>>, <<"uint16", T_ushort>>, <<"int16", T_short>>,
     <<"uint32", T_uint>>, <<"int32", T_int>> >>

\* PLY data type to struct format characters.
_PLY2STRUCT_MAP(ply) ==
  CASE ply = T_double -> "d" [] ply = T_float -> "f" [] ply = T_uchar -> "B"
    [] ply = T_char -> "b" [] ply = T_ushort -> "H" [] ply = T_short -> "h"
    [] ply = T_uint -> "I" [] ply = T_int -> "i"

\* Numpy data type to struct format characters.
_NP2STRUCT_MAP(dt) ==
  CASE dt = "float64" -> "d" [] dt = "float32" -> "f" [] dt = "uint8" -> "B"
    [] dt = "int8" -> "b" [] dt = "uint16" -> "H" [] dt = "int16" -> "h"
    [] dt = "uint32" -> "I" [] dt = "int32" -> "i"

\* The corresponding PLY type of a numpy dtype, or None: 64-bit integers are
\* taken as their 32-bit kind, then the first entry of the map that matches.
_ply_type(dtype) ==
  LET dt == IF dtype = "int64" THEN "int32"
            ELSE IF dtype = "uint64" THEN "uint32" ELSE dtype
      hits == {i \in 1..Len(_NP2PLY_MAP) : _NP2PLY_MAP[i][1] = dt}
  IN  IF hits = {} THEN None
      ELSE _NP2PLY_MAP[CHOOSE i \in hits : \A j \in hits : i <= j][2]

\* types = {ply: dt for dt, ply in _NP2PLY_MAP}: the known type tokens and
\* the numpy type of each.
TypeTokens == {_NP2PLY_MAP[i][2] : i \in 1..Len(_NP2PLY_MAP)}

types(ply) ==
  _NP2PLY_MAP[CHOOSE i \in 1..Len(_NP2PLY_MAP) : _NP2PLY_MAP[i][2] = ply][1]

IsFloatKind(dt) == dt \in {"float64", "float32"}

(***************************************************************************)
(* struct: standard sizes and byte layouts                                 *)
(***************************************************************************)
\* struct.calcsize of one format character in standard ("<" or ">") mode.
calcsize(ch) ==
  CASE ch \in {"B", "b"} -> 1 [] ch \in {"H", "h"} -> 2
    [] ch \in {"I", "i", "f"} -> 4 [] ch = "d" -> 8

Reverse(s) == [i \in 1..Len(s) |-> s[Len(s) + 1 - i]]

\* floor(log2(a)) for a >= 1.
RECURSIVE Log2(_)
Log2(a) == IF a < 2 THEN 0 ELSE 1 + Log2(a \div 2)

\* 256^k for k = 0..3, by position.
P256 == <<1, 256, 65536, 16777216>>

\* Byte j (0 the least significant) of the two's complement of the integer v
\* on w bytes.  On four bytes a negative v is v + 2^32: its low 31 bits are
\* those of v + 2^31.
IntByte(w, v, j) ==
  IF v >= 0 THEN (v \div P256[j + 1]) % 256
  ELSE IF w < 4 THEN ((v + P256[w + 1]) \div P256[j + 1]) % 256
  ELSE LET u == (v + 2147483647) + 1
       IN  IF j < 3 THEN (u \div P256[j + 1]) % 256 ELSE 128 + u \div P256[4]

\* IEEE 754 binary32 of the integer v (|v| < 2^24), most significant first.
Float32Bytes(v) ==
  IF v = 0 THEN <<0, 0, 0, 0>>
  ELSE LET a == Abs(v)
           e == Log2(a)
           ex == e + 127
           m == (a - Pow(2, e)) * Pow(2, 23 - e)
           s == IF v < 0 THEN 128 ELSE 0
       IN  <<s + ex \div 2, (ex % 2) * 128 + m \div 65536, (m \div 256) % 256,
             m % 256>>

\* IEEE 754 binary64 of the integer v (|v| < 2^21), most significant first.
Float64Bytes(v) ==
  IF v = 0 THEN <<0, 0, 0, 0, 0, 0, 0, 0>>
  ELSE LET a == Abs(v)
           e == Log2(a)
           ex == e + 1023
           m == (a - Pow(2, e)) * Pow(2, 20 - e)
           s == IF v < 0 THEN 128 ELSE 0
       IN  <<s + ex \div 16, (ex % 16) * 16 + m \div 65536, (m \div 256) % 256,
             m % 256, 0, 0, 0, 0>>

\* Byte k (1 the first written) of struct.pack(end + ch, v).
PackByte(ch, v, big_endian, k) ==
  LET w == calcsize(ch)
  IN  CASE ch = "f" -> Float32Bytes(v)[IF big_endian THEN k ELSE w + 1 - k]
        [] ch = "d" -> Float64Bytes(v)[IF big_endian THEN k ELSE w + 1 - k]
        [] OTHER -> IntByte(w, v, IF big_endian THEN w - k ELSE k - 1)

\* struct.pack(end + ch, v).
pack(ch, v, big_endian) ==
  [k \in 1..calcsize(ch) |-> PackByte(ch, v, big_endian, k)]

\* The value of little-endian bytes read as an unsigned number.
RECURSIVE LEValue(_)
LEValue(bs) ==
  IF Len(bs) = 0 THEN 0 ELSE bs[1] + 256 * LEValue(SubSeq(bs, 2, Len(bs)))

\* The value of little-endian bytes read in two's complement.
SignedValue(bs) ==
  LET w == Len(bs)
      top == bs[w]
  IN  IF top < 128 THEN LEValue(bs)
      ELSE IF w < 4 THEN LEValue(bs) - Pow(256, w)
      ELSE (LEValue(SubSeq(bs, 1, 3)) + (top - 128) * Pow(256, 3) - 2147483647) - 1

\* The integer value of a binary32 / binary64 given most significant first
\* (the integer part, for a number that is not an integer).
Float32Value(bs) ==
  LET ex == (bs[1] % 128) * 2 + bs[2] \div 128
      sig == Pow(2, 23) + (bs[2] % 128) * 65536 + bs[3] * 256 + bs[4]
      sh == ex - 150
      a == IF ex = 0 \/ sh < -24 THEN 0
           ELSE IF sh >= 0 THEN sig * Pow(2, sh) ELSE sig \div Pow(2, -sh)
  IN  IF bs[1] >= 128 THEN -a ELSE a

Float64Value(bs) ==
  LET ex == (bs[1] % 128) * 16 + bs[2] \div 16
      sig == Pow(2, 20) + (bs[2] % 16) * 65536 + bs[3] * 256 + bs[4]
      sh == ex - 1043
      a == IF ex = 0 \/ sh < -21 THEN 0
           ELSE IF sh >= 0 THEN sig * Pow(2, sh) ELSE sig \div Pow(2, -sh)
  IN  IF bs[1] >= 128 THEN -a ELSE a

\* struct.unpack(end + ch, bs)[0], for Len(bs) = calcsize(ch).
unpack(ch, bs, big_endian) ==
  LET le == IF big_endian THEN Reverse(bs) ELSE bs
      be == IF big_endian THEN bs ELSE Reverse(bs)
  IN  CASE ch = "f" -> Float32Value(be)
        [] ch = "d" -> Float64Value(be)
        [] ch \in {"B", "H", "I"} -> LEValue(le)
        [] OTHER -> SignedValue(le)

(***************************************************************************)
(* Documents.  An element is a structured array [fields, rows]: fields is  *)
(* the sequence of [name, dtype] (dtype "object" for a list property) and  *)
(* a row holds one cell per field: a number, or for a list property a      *)
(* record [np, items] where np is "list" for a Python list of ints and the *)
(* dtype for a numpy array.                                                *)
(***************************************************************************)
RECURSIVE ConcatAll(_)
ConcatAll(ss) ==
  IF Len(ss) = 0 THEN <<>> ELSE ss[1] \o ConcatAll(SubSeq(ss, 2, Len(ss)))

Max(S) == CHOOSE m \in S : \A k \in S : k <= m

\* arr.dtype.hasobject
hasobject(arr) == \E j \in 1..Len(arr.fields) : arr.fields[j].dtype = "object"

\* arr[field]: the column of field j.
Column(arr, j) == [i \in 1..Len(arr.rows) |-> arr.rows[i][j]]

\* np.asarray(x).dtype of a list cell: float64 for an empty Python list,
\* int64 for a Python list of ints, the array's own dtype otherwise.
AsarrayDtype(cell) ==
  IF cell.np = "list" THEN (IF Len(cell.items) = 0 THEN "float64" ELSE "int64")
  ELSE cell.np

\* The thresholds of the list length types.
UcharLimit == 256

UshortLimit == 65536

\* The length type with each threshold taken one too far: a list of 256
\* items still gets uchar, one of 65536 still ushort.
_list_types_inclusive(col) ==
  LET n == IF Len(col) = 0 THEN 0 ELSE Max({Len(col[i].items) : i \in 1..Len(col)})
      len_type == IF n <= UcharLimit THEN T_uchar
                  ELSE IF n <= UshortLimit THEN T_ushort ELSE T_uint
      item_type == IF Len(col) = 0 THEN T_int ELSE _ply_type(AsarrayDtype(col[1]))
  IN  <<len_type, item_type>>

\* _list_types(arr): <<len_type, item_type>> of a column of lists; item_type
\* is None where the code raises PLYError("Invalid list item type").
_list_types(col) ==
  LET n == IF Len(col) = 0 THEN 0 ELSE Max({Len(col[i].items) : i \in 1..Len(col)})
      len_type == IF n < UcharLimit THEN T_uchar
                  ELSE IF n < UshortLimit THEN T_ushort ELSE T_uint
      item_type == IF Len(col) = 0 THEN T_int ELSE _ply_type(AsarrayDtype(col[1]))
  IN  <<len_type, item_type>>

\* Header keywords.
T_ply == <<"p", "l", "y">>
T_format == <<"f", "o", "r", "m", "a", "t">>
T_ascii == <<"a", "s", "c", "i", "i">>
T_binary_little_endian ==
  <<"b", "i", "n", "a", "r", "y", "_", "l", "i", "t", "t", "l", "e", "_", "e",
    "n", "d", "i", "a", "n">>
T_binary_big_endian ==
  <<"b", "i", "n", "a", "r", "y", "_", "b", "i", "g", "_", "e", "n", "d", "i",
    "a", "n">>
T_version == <<"1", ".", "0">>
T_comment == <<"c", "o", "m", "m", "e", "n", "t">>
T_element == <<"e", "l", "e", "m", "e", "n", "t">>
T_property == <<"p", "r", "o", "p", "e", "r", "t", "y">>
T_list == <<"l", "i", "s", "t">>
T_end_header == <<"e", "n", "d", "_", "h", "e", "a", "d", "e", "r">>
T_vertex == <<"v", "e", "r", "t", "e", "x">>
T_face == <<"f", "a", "c", "e">>

\* The declaration line of field j of arr; None where the code raises
\* PLYError (a list item type or a scalar type with no PLY type).
PropertyLine(arr, j) ==
  LET field == arr.fields[j]
  IN  IF field.dtype = "object"
      THEN LET lt == _list_types(Column(arr, j))
           IN  IF lt[2] = None THEN None
               ELSE <<T_property, T_list, lt[1], lt[2], field.name>>
      ELSE LET typename == _ply_type(field.dtype)
           IN  IF typename = None THEN None
               ELSE <<T_property, typename, field.name>>

\* _write_properties(f, arr): the lines written; the code stops at the first
\* field it raises on, having written the lines of the fields before it.
RECURSIVE _write_properties(_, _)
_write_properties(arr, j) ==
  IF j > Len(arr.fields) \/ PropertyLine(arr, j) = None THEN <<>>
  ELSE <<PropertyLine(arr, j)>> \o _write_properties(arr, j + 1)

PropertiesOk(arr) == \A j \in 1..Len(arr.fields) : PropertyLine(arr, j) # None

\* str(x) of an item of a list cell: Python ints and numpy integers print as
\* plain numerals, numpy floats as "1.0".
ItemStr(cell, v) == IF IsFloatKind(cell.np) THEN FloatStr(v) ELSE Decimal(v)

\* The general path of _write_ascii_element: the tokens of row i.
GeneralRowTokens(arr, i) ==
  ConcatAll([j \in 1..Len(arr.fields) |->
    LET x == arr.rows[i][j]
    IN  IF arr.fields[j].dtype = "object"
        THEN <<Decimal(Len(x.items))>> \o [k \in 1..Len(x.items) |-> ItemStr(x, x.items[k])]
        ELSE <<(IF IsFloatKind(arr.fields[j].dtype) THEN FloatStr(x) ELSE Decimal(x))>>])

\* The fast path, np.savetxt(f, arr, fmt="%g"): the tokens of row i.
BulkRowTokens(arr, i) == [j \in 1..Len(arr.fields) |-> FormatG(arr.rows[i][j])]

\* _write_ascii_element(f, arr): the lines written.
_write_ascii_element(arr) ==
  IF hasobject(arr) THEN [i \in 1..Len(arr.rows) |-> GeneralRowTokens(arr, i)]
  ELSE [i \in 1..Len(arr.rows) |-> BulkRowTokens(arr, i)]

\* The items of a list, packed one after the other.
PackItems(ch, items, big_endian) ==
  LET w == calcsize(ch)
  IN  [b \in 1..(w * Len(items)) |->
         PackByte(ch, items[((b - 1) \div w) + 1], big_endian, ((b - 1) % w) + 1)]

\* _write_binary_element(f, arr, big_endian): the bytes written.  The format
\* of a list field is its count then its items, with the types _list_types
\* gives; of a scalar field the struct character of its PLY type.
_write_binary_element(arr, big_endian) ==
  ConcatAll([i \in 1..Len(arr.rows) |->
    ConcatAll([j \in 1..Len(arr.fields) |->
      LET x == arr.rows[i][j]
      IN  IF arr.fields[j].dtype = "object"
          THEN LET lt == _list_types(Column(arr, j))
               IN  pack(_PLY2STRUCT_MAP(lt[1]), Len(x.items), big_endian)
                     \o PackItems(_PLY2STRUCT_MAP(lt[2]), x.items, big_endian)
          ELSE pack(_PLY2STRUCT_MAP(_ply_type(arr.fields[j].dtype)), x, big_endian)])])

\* The format line of _write_ply_handle.
FormatLine(binary, big_endian) ==
  <<T_format,
    IF ~binary THEN T_ascii
    ELSE IF big_endian THEN T_binary_big_endian ELSE T_binary_little_endian,
    T_version>>

\* The comment lines: one per line of comments.splitlines(), the line's
\* words after the keyword (none for an empty line).
CommentLines(comments) == [i \in 1..Len(comments) |-> <<T_comment>> \o comments[i]]

\* The first element whose declarations raise, Len + 1 if none does.
FirstBad(elements) ==
  IF \E k \in 1..Len(elements) : ~PropertiesOk(elements[k].arr)
  THEN CHOOSE k \in 1..Len(elements) :
         /\ ~PropertiesOk(elements[k].arr)
         /\ \A m \in 1..(k - 1) : PropertiesOk(elements[m].arr)
  ELSE Len(elements) + 1

\* _write_ply_handle(f, elements, comments, binary, big_endian): what is
\* written to f, and whether the call returns ("ok") or raises.  elements is
\* the ordered dict as a sequence of [name, arr].
_write_ply_handle(elements, comments, binary, big_endian) ==
  LET bad == FirstBad(elements)
      decls == ConcatAll([k \in 1..Len(elements) |->
                 IF k > bad THEN <<>>
                 ELSE <<<<T_element, elements[k].name, Decimal(Len(elements[k].arr.rows))>>>>
                        \o _write_properties(elements[k].arr, 1)])
      intro == <<<<T_ply>>, FormatLine(binary, big_endian)>> \o CommentLines(comments)
  IN  IF bad <= Len(elements)
      THEN [result |-> "PLYError", lines |-> intro \o decls, bin |-> <<>>]
      ELSE [result |-> "ok",
            lines |-> intro \o decls \o <<<<T_end_header>>>>
                        \o (IF binary THEN <<>>
                            ELSE ConcatAll([k \in 1..Len(elements) |->
                                   _write_ascii_element(elements[k].arr)])),
            bin |-> IF binary
                    THEN ConcatAll([k \in 1..Len(elements) |->
                           _write_binary_element(elements[k].arr, big_endian)])
                    ELSE <<>>]

(***************************************************************************)
(* Reading.  The outcome of a step is "ok" or the class of the exception   *)
(* raised: "PLYError", or an exception of the libraries that the code does *)
(* not catch ("struct.error", "ValueError", "IndexError").                 *)
(***************************************************************************)
\* A line _read_header_line skips: blank after strip(), or starting with
\* b"comment " (the keyword followed by at least one more word).
SkippedLine(line) == Len(line) = 0 \/ (Len(line) > 1 /\ line[1] = T_comment)

\* The format tokens _read_header_intro knows.
FormatTokens == {T_ascii, T_binary_little_endian, T_binary_big_endian}

\* The test on the format line in _read_header_intro: three tokens, the
\* first b"format", the second a known format.
FormatLineOk(fmt) == Len(fmt) = 3 /\ fmt[1] = T_format /\ fmt[2] \in FormatTokens

\* The tests on a declaration line in _read_header_definitions.
ScalarPropertyOk(tokens) ==
  Len(tokens) = 3 /\ tokens[2] \in TypeTokens /\ _isvalidid(tokens[3])

ListPropertyOk(tokens) ==
  /\ Len(tokens) = 5 /\ tokens[2] = T_list
  /\ tokens[3] \in TypeTokens /\ tokens[4] \in TypeTokens /\ _isvalidid(tokens[5])

ElementOk(tokens) == Len(tokens) = 3 /\ _isvalidid(tokens[2]) /\ isdigit(tokens[3])

\* np.empty((size,), dtype=type_) raises ValueError when a field name
\* occurs more than once in type_.
DtypeOk(type_) ==
  \A i, j \in 1..Len(type_) : type_[i].name = type_[j].name => i = j

\* elements[name] = arr on an ordered dict: an existing key keeps its
\* place and gets the new value, a new key goes last.
DictSet(elements, name, arr) ==
  IF \E k \in 1..Len(elements) : elements[k].name = name
  THEN [k \in 1..Len(elements) |->
          IF elements[k].name = name THEN [name |-> name, arr |-> arr]
          ELSE elements[k]]
  ELSE Append(elements, [name |-> name, arr |-> arr])

\* The format strings of _read_ply_element_binary, as sequences of struct
\* characters: at odd places the fixed segments (scalars, and last the
\* counter of the list that follows), at even places the items of a list.
RECURSIVE BuildFmts(_, _, _, _)
BuildFmts(dtype, lts, j, fmt) ==
  IF j > Len(dtype) THEN (IF Len(fmt) > 0 THEN <<fmt>> ELSE <<>>)
  ELSE IF dtype[j].dtype = "object"
  THEN << Append(fmt, _NP2STRUCT_MAP(lts[dtype[j].name][1])),
          <<_NP2STRUCT_MAP(lts[dtype[j].name][2])>> >>
         \o BuildFmts(dtype, lts, j + 1, <<>>)
  ELSE BuildFmts(dtype, lts, j + 1, Append(fmt, _NP2STRUCT_MAP(dtype[j].dtype)))

RECURSIVE SumSizes(_)
SumSizes(chars) ==
  IF Len(chars) = 0 THEN 0
  ELSE calcsize(chars[1]) + SumSizes(SubSeq(chars, 2, Len(chars)))

\* struct.unpack(end + chars, bs) for Len(bs) = SumSizes(chars).
RECURSIVE UnpackAll(_, _, _)
UnpackAll(chars, bs, big_endian) ==
  IF Len(chars) = 0 THEN <<>>
  ELSE <<unpack(chars[1], SubSeq(bs, 1, calcsize(chars[1])), big_endian)>>
         \o UnpackAll(SubSeq(chars, 2, Len(chars)),
                      SubSeq(bs, calcsize(chars[1]) + 1, Len(bs)), big_endian)

\* One row of _read_ply_element_binary, from segment i on: f.read(sz) gives
\* the bytes that are left when fewer than sz are, and struct.unpack then
\* raises struct.error.
RECURSIVE ReadSegments(_, _, _, _, _, _)
ReadSegments(fmts, i, bin, pos, row, big_endian) ==
  IF i > Len(fmts) THEN [result |-> "ok", row |-> row, pos |-> pos]
  ELSE IF i % 2 = 0
  THEN LET count == row[Len(row)]
           ch == fmts[i][1]
           sz == count * calcsize(ch)
       IN  IF pos + sz > Len(bin)
           THEN [result |-> "struct.error", row |-> row, pos |-> Len(bin)]
           ELSE ReadSegments(fmts, i + 1, bin, pos + sz,
                  [row EXCEPT ![Len(row)] =
                     [np |-> "list",
                      items |-> [k \in 1..count |->
                        unpack(ch, SubSeq(bin, pos + (k - 1) * calcsize(ch) + 1,
                                          pos + k * calcsize(ch)), big_endian)]]],
                  big_endian)
  ELSE LET sz == SumSizes(fmts[i])
       IN  IF pos + sz > Len(bin)
           THEN [result |-> "struct.error", row |-> row, pos |-> Len(bin)]
           ELSE ReadSegments(fmts, i + 1, bin, pos + sz,
                  row \o UnpackAll(fmts[i], SubSeq(bin, pos + 1, pos + sz), big_endian),
                  big_endian)

\* _read_ply_element_binary(f, element, list_types, big_endian): the rows
\* from row i on.
RECURSIVE ReadRowsBinary(_, _, _, _, _, _, _)
ReadRowsBinary(fmts, size, i, bin, pos, rows, big_endian) ==
  IF i > size THEN [result |-> "ok", rows |-> rows, pos |-> pos]
  ELSE LET r == ReadSegments(fmts, 1, bin, pos, <<>>, big_endian)
       IN  IF r.result # "ok" THEN [result |-> r.result, rows |-> rows, pos |-> r.pos]
           ELSE ReadRowsBinary(fmts, size, i + 1, bin, r.pos, Append(rows, r.row),
                               big_endian)

_read_ply_element_binary(element, lts, bin, pos, big_endian) ==
  ReadRowsBinary(BuildFmts(element.fields, lts, 1, <<>>), element.size, 1, bin, pos,
                 <<>>, big_endian)

\* Whether numpy's scalar type dt accepts the token, and the value it gives:
\* an integer type takes an integer literal, a floating type a floating one.
ScalarOk(dt, tok) == IF IsFloatKind(dt) THEN IsFloatLiteral(tok) ELSE IsIntLiteral(tok)

ScalarValue(dt, tok) == IF IsFloatKind(dt) THEN FloatValue(tok) ELSE IntValue(tok)

\* One data line of the general path of _read_ply_element_ascii, from field
\* j and token index on (index counts the tokens consumed).
RECURSIVE ReadAsciiRow(_, _, _, _, _, _)
ReadAsciiRow(dtype, lts, tokens, j, index, data) ==
  IF j > Len(dtype) THEN [result |-> "ok", data |-> data]
  ELSE IF index >= Len(tokens) THEN [result |-> "PLYError", data |-> data]
  ELSE IF dtype[j].dtype = "object"
  THEN IF ~IsIntLiteral(tokens[index + 1]) THEN [result |-> "ValueError", data |-> data]
       ELSE LET count == IntValue(tokens[index + 1])
                type_ == lts[dtype[j].name][2]
                have == SubSeq(tokens, index + 2,
                               IF index + 1 + count > Len(tokens) THEN Len(tokens)
                               ELSE index + 1 + count)
            IN  IF \E k \in 1..Len(have) : ~ScalarOk(type_, have[k])
                THEN [result |-> "ValueError", data |-> data]
                ELSE IF Len(have) < count THEN [result |-> "PLYError", data |-> data]
                ELSE ReadAsciiRow(dtype, lts, tokens, j + 1, index + 1 + count,
                       Append(data, [np |-> "list",
                                     items |-> [k \in 1..Len(have) |->
                                                  ScalarValue(type_, have[k])]]))
  ELSE IF ~ScalarOk(dtype[j].dtype, tokens[index + 1])
       THEN [result |-> "ValueError", data |-> data]
       ELSE ReadAsciiRow(dtype, lts, tokens, j + 1, index + 1,
              Append(data, ScalarValue(dtype[j].dtype, tokens[index + 1])))

\* f.readline() on the text of the stream: the next line, b"" (no tokens)
\* at the end of the stream.
Readline(lines, lpos) == IF lpos < Len(lines) THEN lines[lpos + 1] ELSE <<>>

Advance(lines, lpos) == IF lpos < Len(lines) THEN lpos + 1 ELSE lpos

\* The general path of _read_ply_element_ascii, from row k on: one line per
\* row.  ("line is None" never holds: readline gives b"" at the end.)
RECURSIVE ReadRowsAscii(_, _, _, _, _, _)
ReadRowsAscii(element, lts, lines, lpos, k, rows) ==
  IF k > element.size THEN [result |-> "ok", rows |-> rows, lpos |-> lpos]
  ELSE LET r == ReadAsciiRow(element.fields, lts, Readline(lines, lpos), 1, 0, <<>>)
       IN  IF r.result # "ok"
           THEN [result |-> r.result, rows |-> rows, lpos |-> Advance(lines, lpos)]
           ELSE ReadRowsAscii(element, lts, lines, Advance(lines, lpos), k + 1,
                              Append(rows, r.data))

\* The rows of a chunk read at once by the fast path.
ChunkRows == 128

Min(a, b) == IF a < b THEN a ELSE b

\* np.genfromtxt(f, dtype=..., max_rows=want): the lines it consumes are the
\* lines up to the want-th line that is not blank, or all that are left.
RECURSIVE GenfromtxtTake(_, _, _)
GenfromtxtTake(lines, lpos, want) ==
  IF want = 0 \/ lpos >= Len(lines) THEN <<>>
  ELSE IF Len(lines[lpos + 1]) = 0
  THEN <<lines[lpos + 1]>> \o GenfromtxtTake(lines, lpos + 1, want)
  ELSE <<lines[lpos + 1]>> \o GenfromtxtTake(lines, lpos + 1, want - 1)

NonBlank(ls) == SelectSeq(ls, LAMBDA l : Len(l) > 0)

\* The converter genfromtxt uses for a column of type dt: int(float(x)) for
\* the integer types, float(x) for the floating types.
GenfromtxtValue(dt, tok) == FloatValue(tok)

\* _read_numerical_ply_element_ascii(f, element), from row k on (k counts
\* the rows stored).  genfromtxt raises ValueError for a line whose number
\* of columns is not that of the dtype; it squeezes its result, so that a
\* chunk of exactly one row is a 0-d array, whose shape[0] raises
\* IndexError; fewer rows than asked for is the code's PLYError.
RECURSIVE ReadRowsNumerical(_, _, _, _, _)
ReadRowsNumerical(element, lines, lpos, k, rows) ==
  IF k >= element.size THEN [result |-> "ok", rows |-> rows, lpos |-> lpos]
  ELSE LET want == Min(element.size - k, ChunkRows)
           taken == GenfromtxtTake(lines, lpos, want)
           got == NonBlank(taken)
           end == lpos + Len(taken)
           fail(e) == [result |-> e, rows |-> rows, lpos |-> end]
       IN  IF \E i \in 1..Len(got) : Len(got[i]) # Len(element.fields)
           THEN fail("ValueError")
           ELSE IF Len(got) = 1 THEN fail("IndexError")
           ELSE IF Len(got) < want THEN fail("PLYError")
           ELSE ReadRowsNumerical(element, lines, end, k + want,
                  rows \o [i \in 1..Len(got) |->
                             [j \in 1..Len(element.fields) |->
                                GenfromtxtValue(element.fields[j].dtype, got[i][j])]])

\* _read_ply_element_ascii(f, element, list_types).
_read_ply_element_ascii(element, lts, lines, lpos) ==
  IF ~hasobject(element) THEN ReadRowsNumerical(element, lines, lpos, 0, <<>>)
  ELSE ReadRowsAscii(element, lts, lines, lpos, 1, <<>>)

(***************************************************************************)
(* State                                                                   *)
(***************************************************************************)
VARIABLES
  args,        \* the arguments of write_ply: vertices, faces, other_elements
               \* (the dict, as a sequence of [name, arr]), comments (the
               \* lines of the text, each the sequence of its words),
               \* binary, big_endian
  wres,        \* write_ply: "none" before the call, then "ok" or the exception
  dest,        \* the stream: [opened, lines, bin]
  tamper,      \* what was done to the stream between writing and reading
  pc,          \* read_ply: "idle", "magic", "format", "defs", "data",
               \* "done" (returned) or "raised"
  lpos,        \* lines of the stream consumed
  bpos,        \* bytes of the payload consumed
  eofReads,    \* readline calls of _read_header_line that found the end
  fmt,         \* <<binary, big_endian>> as _read_header_intro returns it
  cur,         \* name, type_ and size of the element being declared
  elements,    \* the ordered dict of _read_header_definitions
  list_types,  \* list_types[name][propname] = <<length type, item type>>
  epos,        \* elements decoded so far
  res,         \* read_ply: "none", "ok" or the exception raised
  ret          \* what read_ply returns: [vertex, face, other]

vars ==
  <<args, wres, dest, tamper, pc, lpos, bpos, eofReads, fmt, cur, elements,
    list_types, epos, res, ret>>

writeVars == <<args, wres, dest, tamper>>

readVars == <<lpos, bpos, eofReads, fmt, cur, elements, list_types, epos, res, ret>>

(***************************************************************************)
(* write_ply                                                               *)
(***************************************************************************)
Keys(other_elements) == {other_elements[k].name : k \in 1..Len(other_elements)}

\* A check of the key vertex alone.
InvalidElementName_vertex_only(other_elements) ==
  T_vertex \in Keys(other_elements)

\* "vertex" in other_elements or "face" in other_elements
InvalidElementName(other_elements) ==
  T_vertex \in Keys(other_elements) \/ T_face \in Keys(other_elements)

\* The ordered dict of write_ply: vertex, face, then the other elements.
AllElements(a) ==
  <<[name |-> T_vertex, arr |-> a.vertices], [name |-> T_face, arr |-> a.faces]>>
    \o a.other_elements

NoStream == [opened |-> FALSE, lines |-> <<>>, bin |-> <<>>]

\* write_ply(filename, vertices, faces, other_elements, comments, binary,
\* big_endian) with vertices and faces given as structured arrays.  The
\* names are checked before the destination is opened; what
\* _write_ply_handle wrote before raising stays in the destination.
WritePly ==
  /\ pc = "idle" /\ wres = "none"
  /\ IF InvalidElementName(args.other_elements)
     THEN wres' = "PLYError" /\ dest' = dest
     ELSE LET w == _write_ply_handle(AllElements(args), args.comments, args.binary,
                                     args.big_endian)
          IN  /\ wres' = w.result
              /\ dest' = [opened |-> TRUE, lines |-> w.lines, bin |-> w.bin]
  /\ UNCHANGED <<args, tamper, pc>>
  /\ UNCHANGED readVars

(***************************************************************************)
(* read_ply                                                                *)
(***************************************************************************)
\* read_ply(buf) on the stream that was written (after buf.seek(0)).
ReadPly ==
  /\ pc = "idle" /\ wres = "ok"
  /\ pc' = "magic"
  /\ UNCHANGED writeVars
  /\ UNCHANGED readVars

InHeader == pc \in {"magic", "format", "defs"}

AtEOF == lpos >= Len(dest.lines)

\* How many readline calls at the end of the stream are followed.
MaxEofReads == 3

\* One turn of the loop of _read_header_line that does not return: the line
\* is blank or a comment; at the end of the stream readline gives b"", which
\* is not None and is blank, so the loop goes on.
HeaderSkip ==
  /\ InHeader
  /\ SkippedLine(Readline(dest.lines, lpos))
  /\ IF AtEOF
     THEN eofReads < MaxEofReads /\ eofReads' = eofReads + 1 /\ lpos' = lpos
     ELSE eofReads' = eofReads /\ lpos' = lpos + 1
  /\ UNCHANGED writeVars
  /\ UNCHANGED <<pc, bpos, fmt, cur, elements, list_types, epos, res, ret>>

Raise(e) == pc' = "raised" /\ res' = e

\* _read_header_intro: the magic number.
ReadMagic ==
  /\ pc = "magic"
  /\ ~SkippedLine(Readline(dest.lines, lpos))
  /\ lpos' = lpos + 1
  /\ IF Readline(dest.lines, lpos) # <<T_ply>> THEN Raise("PLYError")
     ELSE pc' = "format" /\ res' = res
  /\ UNCHANGED writeVars
  /\ UNCHANGED <<bpos, eofReads, fmt, cur, elements, list_types, epos, ret>>

\* _read_header_intro: the format line.
ReadFormat ==
  /\ pc = "format"
  /\ ~SkippedLine(Readline(dest.lines, lpos))
  /\ lpos' = lpos + 1
  /\ LET line == Readline(dest.lines, lpos)
     IN  IF ~FormatLineOk(line) THEN Raise("PLYError") /\ fmt' = fmt
         ELSE /\ pc' = "defs" /\ res' = res
              /\ fmt' = IF line[2] = T_ascii THEN <<FALSE, TRUE>>
                        ELSE IF line[2] = T_binary_little_endian THEN <<TRUE, FALSE>>
                        ELSE <<TRUE, TRUE>>
  /\ UNCHANGED writeVars
  /\ UNCHANGED <<bpos, eofReads, cur, elements, list_types, epos, ret>>

NoElement == [name |-> None, type_ |-> None, size |-> 0]

DictPut(d, k, v) == [x \in DOMAIN d \cup {k} |-> IF x = k THEN v ELSE d[x]]

\* One line of _read_header_definitions.
ReadDefinition ==
  /\ pc = "defs"
  /\ ~SkippedLine(Readline(dest.lines, lpos))
  /\ lpos' = lpos + 1
  /\ LET tokens == Readline(dest.lines, lpos)
         stored == IF cur.name # None
                   THEN DictSet(elements, cur.name,
                                [fields |-> cur.type_, size |-> cur.size, rows |-> <<>>])
                   ELSE elements
     IN  IF tokens[1] = T_property
         THEN IF cur.name = None
              THEN Raise("PLYError") /\ UNCHANGED <<cur, elements, list_types>>
              ELSE IF ScalarPropertyOk(tokens)
              THEN /\ cur' = [cur EXCEPT !.type_ =
                                Append(@, [name |-> tokens[3], dtype |-> types(tokens[2])])]
                   /\ UNCHANGED <<pc, res, elements, list_types>>
              ELSE IF ListPropertyOk(tokens)
              THEN /\ cur' = [cur EXCEPT !.type_ =
                                Append(@, [name |-> tokens[5], dtype |-> "object"])]
                   /\ list_types' =
                        [list_types EXCEPT ![cur.name] =
                           DictPut(@, tokens[5], <<types(tokens[3]), types(tokens[4])>>)]
                   /\ UNCHANGED <<pc, res, elements>>
              ELSE Raise("PLYError") /\ UNCHANGED <<cur, elements, list_types>>
         ELSE IF cur.name # None /\ ~DtypeOk(cur.type_)
         THEN Raise("ValueError") /\ UNCHANGED <<cur, elements, list_types>>
         ELSE /\ elements' = stored
              /\ IF tokens = <<T_end_header>>
                 THEN pc' = "data" /\ res' = res /\ UNCHANGED <<cur, list_types>>
                 ELSE IF tokens[1] = T_element /\ ElementOk(tokens)
                 THEN /\ cur' = [name |-> tokens[2], type_ |-> <<>>,
                                 size |-> IntValue(tokens[3])]
                      /\ list_types' = DictPut(list_types, tokens[2], <<>>)
                      /\ UNCHANGED <<pc, res>>
                 ELSE Raise("PLYError") /\ UNCHANGED <<cur, list_types>>
  /\ UNCHANGED writeVars
  /\ UNCHANGED <<bpos, eofReads, fmt, epos, ret>>

\* One turn of the loop of _read_ply_handle: the next element is decoded.
ReadElement ==
  /\ pc = "data" /\ epos < Len(elements)
  /\ LET e == elements[epos + 1]
         lts == list_types[e.name]
     IN  IF fmt[1]
         THEN LET r == _read_ply_element_binary(e.arr, lts, dest.bin, bpos, fmt[2])
              IN  /\ bpos' = r.pos /\ lpos' = lpos
                  /\ elements' = [elements EXCEPT ![epos + 1].arr.rows = r.rows]
                  /\ IF r.result = "ok" THEN pc' = pc /\ res' = res ELSE Raise(r.result)
         ELSE LET r == _read_ply_element_ascii(e.arr, lts, dest.lines, lpos)
              IN  /\ lpos' = r.lpos /\ bpos' = bpos
                  /\ elements' = [elements EXCEPT ![epos + 1].arr.rows = r.rows]
                  /\ IF r.result = "ok" THEN pc' = pc /\ res' = res ELSE Raise(r.result)
  /\ epos' = epos + 1
  /\ UNCHANGED writeVars
  /\ UNCHANGED <<eofReads, fmt, cur, list_types, ret>>

N_x == <<"x">>

N_y == <<"y">>

N_z == <<"z">>

N_vertex_index == <<"v", "e", "r", "t", "e", "x", "_", "i", "n", "d", "e", "x">>

\* The elements read_ply gives when the file has no vertex or no face.
EmptyVertex ==
  [fields |-> <<[name |-> N_x, dtype |-> "float32"], [name |-> N_y, dtype |-> "float32"],
                [name |-> N_z, dtype |-> "float32"]>>,
   size |-> 0, rows |-> <<>>]

EmptyFace ==
  [fields |-> <<[name |-> N_vertex_index, dtype |-> "object"]>>, size |-> 0, rows |-> <<>>]

Lookup(els, name, default) ==
  IF \E k \in 1..Len(els) : els[k].name = name
  THEN els[CHOOSE k \in 1..Len(els) : els[k].name = name].arr
  ELSE default

\* _read_ply_handle returns the elements, and read_ply rearranges them.
Return ==
  /\ pc = "data" /\ epos = Len(elements)
  /\ pc' = "done" /\ res' = "ok"
  /\ ret' = [vertex |-> Lookup(elements, T_vertex, EmptyVertex),
             face |-> Lookup(elements, T_face, EmptyFace),
             other |-> SelectSeq(elements, LAMBDA e : e.name \notin {T_vertex, T_face})]
  /\ UNCHANGED writeVars
  /\ UNCHANGED <<lpos, bpos, eofReads, fmt, cur, elements, list_types, epos>>

ReadSteps == HeaderSkip \/ ReadMagic \/ ReadFormat \/ ReadDefinition \/ ReadElement \/ Return

\* The reader's variables before read_ply is called.
ReadInit ==
  /\ lpos = 0 /\ bpos = 0 /\ eofReads = 0 /\ fmt = <<FALSE, FALSE>>
  /\ cur = NoElement /\ elements = <<>> /\ list_types = <<>> /\ epos = 0
  /\ res = "none" /\ ret = <<>>

(***************************************************************************)
(* Documents written and read back                                         *)
(***************************************************************************)
\* Rows per element, items per list, and other elements per document.
MaxRows == 2

MaxListLen == 2

Field(name, dtype) == [name |-> name, dtype |-> dtype]

Arr(fields, rows) == [fields |-> fields, rows |-> rows]

PyList(items) == [np |-> "list", items |-> items]

NpArray(dtype, items) == [np |-> dtype, items |-> items]

SeqsUpTo(S, n) == UNION {[1..k -> S] : k \in 0..n}

\* The scalar dtypes with a PLY type of their own, and values of each: the
\* ends of the range (of the range of exact values, for the floating kinds;
\* below 2^31 for uint32) and a seven-digit number where the kind has one.
ScalarDtypes ==
  {"float64", "float32", "uint8", "int8", "uint16", "int16", "uint32", "int32"}

SampleValues(dt) ==
  CASE dt = "uint8" -> {0, 255}
    [] dt = "int8" -> {-128, 127}
    [] dt = "uint16" -> {7, 65535}
    [] dt = "int16" -> {-32768, 32767}
    [] dt = "uint32" -> {999999, 1234567}
    [] dt = "int32" -> {-1234567, 2147483647}
    [] dt = "float32" -> {0, -2}
    [] dt = "float64" -> {1, 1000000}

N_extra == <<"e", "x", "t", "r", "a">>

N_red == <<"r", "e", "d">>

XYZ(dt) == <<Field(N_x, dt), Field(N_y, dt), Field(N_z, dt)>>

\* The cube's corner and face of test_write, cut to the bounds.
DefaultVertices == Arr(XYZ("float64"), << <<0, 0, 1>>, <<0, 1, 0>> >>)

DefaultFaces == Arr(<<Field(N_vertex_index, "object")>>, << <<PyList(<<0, 1>>)>> >>)

\* Vertices: one property of each kind with every choice of rows, and
\* several properties of different kinds.
VertexChoices ==
  UNION {{Arr(<<Field(N_x, dt)>>, rows) :
            rows \in SeqsUpTo({<<v>> : v \in SampleValues(dt)}, MaxRows)} :
         dt \in ScalarDtypes} \cup
  {Arr(<<Field(N_x, "float32"), Field(N_red, "uint8"), Field(N_y, "int16")>>, rows) :
     rows \in SeqsUpTo({<<-2, 255, -32768>>, <<0, 0, 32767>>}, MaxRows)}

PyLists == SeqsUpTo({0, 7}, MaxListLen)

\* Faces: Python lists of ints; a scalar before or after the list; numpy
\* arrays as lists.
FaceChoices ==
  {Arr(<<Field(N_vertex_index, "object")>>, rows) :
     rows \in SeqsUpTo({<<PyList(l)>> : l \in PyLists}, MaxRows)} \cup
  {Arr(<<Field(N_red, "uint8"), Field(N_vertex_index, "object")>>, rows) :
     rows \in SeqsUpTo({<<255, PyList(<<7, 0>>)>>, <<0, PyList(<<>>)>>}, MaxRows)} \cup
  {Arr(<<Field(N_vertex_index, "object"), Field(N_x, "int32")>>, rows) :
     rows \in SeqsUpTo({<<PyList(<<7>>), -1234567>>, <<PyList(<<0, 7>>), 5>>}, MaxRows)} \cup
  {Arr(<<Field(N_vertex_index, "object")>>, rows) :
     rows \in SeqsUpTo({<<NpArray("uint16", <<65535>>)>>, <<NpArray("uint16", <<>>)>>},
                       MaxRows)} \cup
  {Arr(<<Field(N_vertex_index, "object")>>, rows) :
     rows \in SeqsUpTo({<<NpArray("float32", <<-2, 0>>)>>}, MaxRows)}

\* The extra element of test_write (one int32 property named "property").
ExtraChoices ==
  {Arr(<<Field(T_property, "int32")>>, rows) :
     rows \in SeqsUpTo({<<0>>, <<1>>}, MaxRows)}

OtherChoices ==
  {<<>>} \cup
  {<<[name |-> N_extra, arr |-> e]>> : e \in ExtraChoices} \cup
  {<<[name |-> n, arr |-> e]>> :
     n \in {T_vertex, T_face}, e \in {Arr(<<Field(T_property, "int32")>>, << <<1>> >>)}} \cup
  {<<[name |-> N_extra, arr |-> Arr(<<Field(N_x, "int8")>>, <<>>)],
     [name |-> T_face, arr |-> DefaultFaces]>>}

W_test == <<"t", "e", "s", "t">>

CommentChoices ==
  {<<>>, <<<<W_test>>>>, <<<<W_test, W_test>>, <<W_test>>>>, <<<<W_test>>, <<>>, <<W_test>>>>}

Call(v, f, o, c) ==
  [vertices |-> v, faces |-> f, other_elements |-> o, comments |-> c]

\* The calls of write_ply considered: each argument varied in turn.
Calls ==
  {Call(v, DefaultFaces, <<>>, <<>>) : v \in VertexChoices} \cup
  {Call(DefaultVertices, f, <<>>, <<>>) : f \in FaceChoices} \cup
  {Call(DefaultVertices, DefaultFaces, o, <<>>) : o \in OtherChoices} \cup
  {Call(DefaultVertices, DefaultFaces, <<>>, c) : c \in CommentChoices}

Encodings == {<<FALSE, FALSE>>, <<TRUE, FALSE>>, <<TRUE, TRUE>>}

WithEncoding(c, enc) ==
  [vertices |-> c.vertices, faces |-> c.faces, other_elements |-> c.other_elements,
   comments |-> c.comments, binary |-> enc[1], big_endian |-> enc[2]]

Init ==
  /\ args \in {WithEncoding(c, enc) : c \in Calls, enc \in Encodings}
  /\ wres = "none" /\ dest = NoStream /\ tamper = "none" /\ pc = "idle"
  /\ ReadInit

Next == WritePly \/ ReadPly \/ ReadSteps

Spec == Init /\ [][Next]_vars

(***************************************************************************)
(* C1: round trip                                                          *)
(***************************************************************************)
\* The element read has the property names of the element written, in
\* order, a list where a list was written, and the same rows: the same
\* numbers and the same list contents.
SameElement(a, e) ==
  /\ Len(e.fields) = Len(a.fields)
  /\ \A j \in 1..Len(a.fields) :
       /\ e.fields[j].name = a.fields[j].name
       /\ (e.fields[j].dtype = "object") <=> (a.fields[j].dtype = "object")
  /\ Len(e.rows) = Len(a.rows)
  /\ \A i \in 1..Len(a.rows) :
       /\ Len(e.rows[i]) = Len(a.fields)
       /\ \A j \in 1..Len(a.fields) :
            IF a.fields[j].dtype = "object"
            THEN e.rows[i][j].items = a.rows[i][j].items
            ELSE e.rows[i][j] = a.rows[i][j]

SameDocument(a, r) ==
  /\ SameElement(a.vertices, r.vertex)
  /\ SameElement(a.faces, r.face)
  /\ Len(r.other) = Len(a.other_elements)
  /\ \A k \in 1..Len(a.other_elements) :
       /\ r.other[k].name = a.other_elements[k].name
       /\ SameElement(a.other_elements[k].arr, r.other[k].arr)

ReadOver == pc \in {"done", "raised"}

\* C1 (as claimed): for each of the three encodings, reading what write_ply
\* wrote succeeds and returns the elements that were written, with the same
\* property names, rows and list contents.
C1_RoundTrip ==
  (wres = "ok" /\ tamper = "none" /\ ReadOver) => (res = "ok" /\ SameDocument(args, ret))

(***************************************************************************)
(* C10: the ascii tokens of integer-kind scalars                           *)
(***************************************************************************)
\* The number of lines of the stream up to and including end_header.
HeaderLen(lines) ==
  IF \E n \in 1..Len(lines) : lines[n] = <<T_end_header>>
  THEN CHOOSE n \in 1..Len(lines) :
         lines[n] = <<T_end_header>> /\ \A m \in 1..(n - 1) : lines[m] # <<T_end_header>>
  ELSE Len(lines)

RECURSIVE RowsBefore(_, _)
RowsBefore(els, k) ==
  IF k <= 1 THEN 0 ELSE RowsBefore(els, k - 1) + Len(els[k - 1].arr.rows)

\* The data line written for row i of the k-th element.
AsciiRow(k, i) ==
  dest.lines[HeaderLen(dest.lines) + RowsBefore(AllElements(args), k) + i]

AsciiWritten == wres = "ok" /\ ~args.binary

\* C10 (as claimed): in an ascii document every integer-kind scalar of a
\* pure-scalar element is written as its plain decimal numeral, the token
\* the general per-row path would write.
C10_PlainDecimal ==
  AsciiWritten =>
    \A k \in 1..Len(AllElements(args)) :
      LET arr == AllElements(args)[k].arr
      IN  ~hasobject(arr) =>
            \A i \in 1..Len(arr.rows) : \A j \in 1..Len(arr.fields) :
              ~IsFloatKind(arr.fields[j].dtype) =>
                AsciiRow(k, i)[j] = Decimal(arr.rows[i][j])

(***************************************************************************)
(* C8: the reserved element names                                          *)
(***************************************************************************)
ReservedKey ==
  \E k \in 1..Len(args.other_elements) :
    args.other_elements[k].name \in {T_vertex, T_face}

\* C8: once write_ply has been called with an other_elements that has the
\* key vertex or the key face, it has raised PLYError and the destination
\* has not been opened and holds nothing.
C8_ReservedNameRejected ==
  (wres # "none" /\ ReservedKey) => (wres = "PLYError" /\ dest = NoStream)

\* write_ply has raised on a call whose other_elements has the key face.
C8_Witness ==
  /\ wres = "PLYError"
  /\ \E k \in 1..Len(args.other_elements) : args.other_elements[k].name = T_face

(***************************************************************************)
(* Damaged payloads (test_ascii_data_error, test_binary_data_error): the   *)
(* stream write_ply produced is changed in one place, then read.           *)
(***************************************************************************)
Intact == pc = "idle" /\ wres = "ok" /\ tamper = "none"

Damage(kind, lines, bin) ==
  /\ tamper' = kind
  /\ dest' = [opened |-> TRUE, lines |-> lines, bin |-> bin]
  /\ UNCHANGED <<args, wres, pc>>
  /\ UNCHANGED readVars

\* ply[:index]: the binary payload cut short at any place.
Truncate ==
  /\ Intact /\ args.binary
  /\ \E n \in 0..(Len(dest.bin) - 1) :
       Damage("truncated", dest.lines, SubSeq(dest.bin, 1, n))

\* ply + b"x"
AppendByte ==
  /\ Intact /\ args.binary
  /\ Damage("trailing", dest.lines, Append(dest.bin, 120))

\* The data lines that hold the rows of the elements with a list property.
ListRowLines ==
  LET els == AllElements(args)
  IN  UNION {(HeaderLen(dest.lines) + RowsBefore(els, k) + 1)
               ..(HeaderLen(dest.lines) + RowsBefore(els, k) + Len(els[k].arr.rows)) :
             k \in {m \in 1..Len(els) : hasobject(els[m].arr)}}

Tok_0 == <<"0">>

Tok_z == <<"z">>

\* " 0 " -> " 0 0 ": one more token at the end of a row.
ExtraToken ==
  /\ Intact /\ ~args.binary
  /\ \E n \in ListRowLines :
       Damage("extra_token", [dest.lines EXCEPT ![n] = Append(@, Tok_0)], dest.bin)

\* " 0 " -> " ": the last token of a row is missing.
MissingToken ==
  /\ Intact /\ ~args.binary
  /\ \E n \in ListRowLines :
       Damage("missing_token",
              [dest.lines EXCEPT ![n] = SubSeq(@, 1, Len(@) - 1)], dest.bin)

\* " 0 " -> " z ": a token that is no number.
NonNumeric ==
  /\ Intact /\ ~args.binary
  /\ \E n \in ListRowLines : \E j \in 1..Len(dest.lines[n]) :
       Damage("non_numeric", [dest.lines EXCEPT ![n][j] = Tok_z], dest.bin)

\* One more data line after the last row.
ExtraLine ==
  /\ Intact /\ ~args.binary
  /\ Damage("extra_line", Append(dest.lines, <<Tok_0>>), dest.bin)

\* "3 0 1 2\n" -> "": the last data line is missing.
MissingLine ==
  /\ Intact /\ ~args.binary
  /\ Len(dest.lines) > HeaderLen(dest.lines)
  /\ Damage("missing_line", SubSeq(dest.lines, 1, Len(dest.lines) - 1), dest.bin)

TamperSteps ==
  Truncate \/ AppendByte \/ ExtraToken \/ MissingToken \/ NonNumeric \/ ExtraLine
    \/ MissingLine

\* The documents damaged: the cube's corner with a comment, a scalar before
\* a list, a list before a scalar, and the extra element of test_write.
DataCalls ==
  {Call(DefaultVertices, DefaultFaces, <<>>, <<<<W_test>>>>),
   Call(DefaultVertices,
        Arr(<<Field(N_red, "uint8"), Field(N_vertex_index, "object")>>,
            << <<255, PyList(<<7, 0>>)>>, <<0, PyList(<<>>)>> >>), <<>>, <<>>),
   Call(DefaultVertices,
        Arr(<<Field(N_vertex_index, "object"), Field(N_x, "int32")>>,
            << <<PyList(<<7>>), -1234567>>, <<PyList(<<0, 7>>), 5>> >>), <<>>, <<>>),
   Call(DefaultVertices, DefaultFaces,
        <<[name |-> N_extra,
           arr |-> Arr(<<Field(T_property, "int32")>>, << <<0>>, <<1>> >>)]>>, <<>>)}

InitData ==
  /\ args \in {WithEncoding(c, enc) : c \in DataCalls, enc \in Encodings}
  /\ wres = "none" /\ dest = NoStream /\ tamper = "none" /\ pc = "idle"
  /\ ReadInit

NextData == WritePly \/ TamperSteps \/ ReadPly \/ ReadSteps

SpecData == InitData /\ [][NextData]_vars

\* C4 (as claimed): a binary document whose payload was cut short, at any
\* place, makes read_ply raise PLYError (UnexpectedEOF).
C4_TruncatedBinaryRaisesPLYError ==
  (tamper = "truncated" /\ ReadOver) => res = "PLYError"

\* C5 (as claimed): a valid binary document followed by one extra byte makes
\* read_ply raise PLYError (DataFormatError) instead of returning.
C5_TrailingByteRejected ==
  (tamper = "trailing" /\ ReadOver) => res = "PLYError"

AsciiDamage == {"extra_token", "missing_token", "non_numeric", "extra_line", "missing_line"}

\* C6 (as claimed): an ascii document with a row that has one token too
\* many, one too few or a token that is no number, or with one data line
\* too many or too few, makes read_ply raise PLYError.
C6_MalformedAsciiRowRaisesPLYError ==
  (tamper \in AsciiDamage /\ ReadOver) => res = "PLYError"

(***************************************************************************)
(* Headers (test_header_error): read_ply on streams made of header lines,  *)
(* with no data after them.                                                *)
(***************************************************************************)
T_pl == <<"p", "l">>

T_2_0 == <<"2", ".", "0">>

T_asci == <<"a", "s", "c", "i">>

T_decimal == <<"d", "e", "c", "i", "m", "a", "l">>

MagicLines == {<<T_ply>>, <<T_pl>>}

FormatLines ==
  {<<T_format, T_ascii, T_version>>, <<T_format, T_binary_big_endian, T_version>>,
   <<T_format, T_ascii, T_2_0>>, <<T_format, T_asci, T_version>>, <<T_format, T_ascii>>}

\* The declaration lines: the elements of an empty mesh, an element named
\* twice, a row count that is no number, a property named twice, an unknown
\* type, a list without its keyword.
DeclLines ==
  {<<T_element, T_vertex, Tok_0>>, <<T_element, T_face, Tok_0>>,
   <<T_element, T_vertex, <<"-", "1">> >>,
   <<T_property, T_float, N_x>>, <<T_property, T_uchar, N_y>>,
   <<T_property, T_list, T_uchar, T_int, N_vertex_index>>,
   <<T_property, T_decimal, N_x>>,
   <<T_property, T_uchar, T_int, N_vertex_index>>,
   <<T_comment, W_test>>}

\* Declaration lines per header.
MaxDecls == 4

GoodIntro == <<<<T_ply>>, <<T_format, T_ascii, T_version>>>>

\* The headers read: every choice of the two first lines before one
\* declaration, and the good first lines before every choice of
\* declarations; each with and without its end_header line.
Headers ==
  LET bodies ==
        {<<m, f, <<T_element, T_vertex, Tok_0>>>> : m \in MagicLines, f \in FormatLines}
          \cup {<<<<T_ply>>, f>> \o d :
                  f \in {<<T_format, T_ascii, T_version>>, <<T_format, T_ascii, T_2_0>>},
                  d \in SeqsUpTo(DeclLines, MaxDecls)}
          \cup {<<>>}
  IN  bodies \cup {Append(b, <<T_end_header>>) : b \in bodies}

\* No call of write_ply stands behind these streams.
NoCall ==
  [vertices |-> Arr(<<>>, <<>>), faces |-> Arr(<<>>, <<>>), other_elements |-> <<>>,
   comments |-> <<>>, binary |-> FALSE, big_endian |-> FALSE]

InitHeader ==
  /\ args = NoCall /\ wres = "none" /\ tamper = "none"
  /\ dest \in {[opened |-> TRUE, lines |-> h, bin |-> <<>>] : h \in Headers}
  /\ pc = "magic"
  /\ ReadInit

NextHeader == ReadSteps

SpecHeader == InitHeader /\ [][NextHeader]_vars

(***************************************************************************)
(* C2, C3, C9: the header                                                  *)
(***************************************************************************)
\* The lines of a header that are neither blank nor comments.
Significant(lines) == SelectSeq(lines, LAMBDA l : ~SkippedLine(l))

GElement(l) == Len(l) = 3 /\ l[1] = T_element /\ _isvalidid(l[2]) /\ isdigit(l[3])

GProperty(l) ==
  \/ Len(l) = 3 /\ l[1] = T_property /\ l[2] \in TypeTokens /\ _isvalidid(l[3])
  \/ /\ Len(l) = 5 /\ l[1] = T_property /\ l[2] = T_list
     /\ l[3] \in TypeTokens /\ l[4] \in TypeTokens /\ _isvalidid(l[5])

\* The grammar of the header: ply, format T 1.0, then element lines and,
\* after the first of them, property lines, up to end_header.
GrammarOk(lines) ==
  LET s == Significant(lines)
  IN  /\ Len(s) >= 3
      /\ s[1] = <<T_ply>>
      /\ Len(s[2]) = 3 /\ s[2][1] = T_format /\ s[2][2] \in FormatTokens
      /\ s[2][3] = T_version
      /\ \E e \in 3..Len(s) :
           /\ s[e] = <<T_end_header>>
           /\ \A n \in 3..(e - 1) :
                \/ GElement(s[n])
                \/ GProperty(s[n]) /\ \E m \in 3..(n - 1) : GElement(s[m])

\* C2 (as claimed): read_ply returns a document only for a header that
\* matches the grammar; every other header makes it raise.
C2_AcceptedHeaderMatchesGrammar == pc = "done" => GrammarOk(dest.lines)

\* C3 (as claimed): when the header line reader finds the end of the stream
\* it raises PLYError (UnexpectedEOF); it does not go on reading.
C3_EOFInHeaderRaises == eofReads >= 1 => (pc = "raised" /\ res = "PLYError")

\* The schema a header declares: one element per element line, in order,
\* with its row count and one property per property line that follows it.
RECURSIVE DeclaredSchema(_, _, _)
DeclaredSchema(s, n, acc) ==
  IF n > Len(s) \/ s[n] = <<T_end_header>> THEN acc
  ELSE IF s[n][1] = T_element
  THEN DeclaredSchema(s, n + 1,
         Append(acc, [name |-> s[n][2], size |-> IntValue(s[n][3]), fields |-> <<>>]))
  ELSE DeclaredSchema(s, n + 1,
         [acc EXCEPT ![Len(acc)].fields =
            Append(@, [name |-> s[n][Len(s[n])],
                       dtype |-> IF Len(s[n]) = 5 THEN "object" ELSE types(s[n][2])])])

ParsedSchema ==
  [k \in 1..Len(elements) |->
     [name |-> elements[k].name, size |-> elements[k].arr.size,
      fields |-> elements[k].arr.fields]]

HeaderParsed == pc \in {"data", "done"}

\* C9 (as claimed): after a successful header parse the schema holds one
\* element per element line and one property per property line, in the
\* order of the lines, each element with its own row count and properties.
C9_SchemaKeepsEveryDeclaration ==
  HeaderParsed => ParsedSchema = DeclaredSchema(Significant(dest.lines), 3, <<>>)

(***************************************************************************)
(* C7: the count kind of a list property                                   *)
(***************************************************************************)
Zeros(n) == [k \in 1..n |-> 0]

\* The list lengths around the first threshold, and short ones.
CountLengths == {0, 1, UcharLimit - 2, UcharLimit - 1, UcharLimit, UcharLimit + 1}

\* The longest list alone, after a shorter one, or before an empty one; as
\* a Python list of ints, or as an array of bytes.  Around the second
\* threshold: an array of bytes after a shorter one.
CountFaces ==
  UNION {{Arr(<<Field(N_vertex_index, "object")>>, << <<l>> >>),
          Arr(<<Field(N_vertex_index, "object")>>, << <<[l EXCEPT !.items = <<0>>]>>, <<l>> >>),
          Arr(<<Field(N_red, "uint8"), Field(N_vertex_index, "object")>>,
              << <<255, l>>, <<7, [l EXCEPT !.items = <<>>]>> >>)} :
         l \in {PyList(Zeros(n)) : n \in CountLengths}
                 \cup {NpArray("uint8", Zeros(n)) : n \in CountLengths}} \cup
  {Arr(<<Field(N_vertex_index, "object")>>,
       << <<NpArray("uint8", <<0>>)>>, <<NpArray("uint8", Zeros(n))>> >>) :
     n \in {UshortLimit - 1, UshortLimit}}

CountCalls == {Call(Arr(XYZ("float32"), <<>>), f, <<>>, <<>>) : f \in CountFaces}

InitCount ==
  /\ args \in {WithEncoding(c, enc) : c \in CountCalls, enc \in Encodings}
  /\ wres = "none" /\ dest = NoStream /\ tamper = "none" /\ pc = "idle"
  /\ ReadInit

NextCount == WritePly

SpecCount == InitCount /\ [][NextCount]_vars

\* The narrowest of uchar, ushort and uint that holds n.
NarrowestCountKind(n) ==
  IF n <= 255 THEN T_uchar ELSE IF n <= 65535 THEN T_ushort ELSE T_uint

CountWidth(kind) == IF kind = T_uchar THEN 1 ELSE IF kind = T_ushort THEN 2 ELSE 4

\* n as an unsigned integer of w bytes.
CountBytes(n, w, big_endian) ==
  LET le == [b \in 1..w |-> (n \div P256[b]) % 256]
  IN  IF big_endian THEN [b \in 1..w |-> le[w + 1 - b]] ELSE le

\* The longest list of field j of arr.
LongestList(arr, j) ==
  IF Len(arr.rows) = 0 THEN 0
  ELSE Max({Len(arr.rows[i][j].items) : i \in 1..Len(arr.rows)})

\* The header line that declares field j of the k-th element.
RECURSIVE DeclsBefore(_, _)
DeclsBefore(els, k) ==
  IF k <= 1 THEN 0 ELSE DeclsBefore(els, k - 1) + 1 + Len(els[k - 1].arr.fields)

DeclarationLine(k, j) ==
  dest.lines[2 + Len(args.comments) + DeclsBefore(AllElements(args), k) + 1 + j]

\* The width in the payload of the scalar field j of arr.
ScalarWidth(arr, j) == calcsize(_PLY2STRUCT_MAP(_ply_type(arr.fields[j].dtype)))

ItemWidth(arr, j) == calcsize(_PLY2STRUCT_MAP(_list_types(Column(arr, j))[2]))

\* Whether the payload from pos on holds the rows of arr from row i, field j
\* on, the count of every list being of the narrowest kind for its field.
RECURSIVE CountsInPayload(_, _, _, _)
CountsInPayload(arr, i, j, pos) ==
  IF i > Len(arr.rows) THEN pos = Len(dest.bin)
  ELSE IF j > Len(arr.fields) THEN CountsInPayload(arr, i + 1, 1, pos)
  ELSE IF arr.fields[j].dtype # "object"
  THEN CountsInPayload(arr, i, j + 1, pos + ScalarWidth(arr, j))
  ELSE LET w == CountWidth(NarrowestCountKind(LongestList(arr, j)))
           n == Len(arr.rows[i][j].items)
       IN  /\ pos + w <= Len(dest.bin)
           /\ SubSeq(dest.bin, pos + 1, pos + w) = CountBytes(n, w, args.big_endian)
           /\ CountsInPayload(arr, i, j + 1, pos + w + n * ItemWidth(arr, j))

\* C7: in what write_ply wrote, every list property of the face element is
\* declared with the narrowest count kind that holds its longest list
\* (uchar up to 255, ushort up to 65535, uint from 65536), and in a binary
\* payload the count of each of its rows is a field of that kind.
C7_NarrowestCountKind ==
  wres = "ok" =>
    /\ \A j \in 1..Len(args.faces.fields) :
         args.faces.fields[j].dtype = "object" =>
           /\ Len(DeclarationLine(2, j)) = 5
           /\ DeclarationLine(2, j)[3] = NarrowestCountKind(LongestList(args.faces, j))
    /\ args.binary => CountsInPayload(args.faces, 1, 1, 0)

\* A binary document was written whose longest list has 256 items, after a
\* shorter one, and its count kind is ushort.
C7_Witness ==
  /\ wres = "ok" /\ args.binary
  /\ Len(args.faces.fields) = 1 /\ Len(args.faces.rows) = 2
  /\ LongestList(args.faces, 1) = UcharLimit
  /\ DeclarationLine(2, 1)[3] = T_ushort

(***************************************************************************)
(* C11: the item kind of an empty list property                            *)
(***************************************************************************)
\* Field j of arr is a list property with no item at all: the element has
\* no rows, or the list of every row is empty.
EmptyListProperty(arr, j) ==
  /\ arr.fields[j].dtype = "object"
  /\ \A i \in 1..Len(arr.rows) : Len(arr.rows[i][j].items) = 0

\* C11 (as claimed): in what write_ply wrote, every list property that is
\* empty (no rows, or only empty lists) is declared with item kind int.
C11_EmptyListItemKindInt ==
  wres = "ok" =>
    \A k \in 1..Len(AllElements(args)) :
      LET arr == AllElements(args)[k].arr
      IN  \A j \in 1..Len(arr.fields) :
            EmptyListProperty(arr, j) =>
              /\ Len(DeclarationLine(k, j)) = 5
              /\ DeclarationLine(k, j)[4] = T_int

(***************************************************************************)
(* C12: the comment lines                                                  *)
(***************************************************************************)
\* The lines of the header written that begin with the keyword comment.
WrittenCommentLines ==
  SelectSeq(SubSeq(dest.lines, 1, HeaderLen(dest.lines)),
            LAMBDA l : Len(l) > 0 /\ l[1] = T_comment)

\* One line "comment <line>" per line of the text that is not empty.
ExpectedCommentLines(comments) ==
  LET kept == SelectSeq(comments, LAMBDA c : Len(c) > 0)
  IN  [i \in 1..Len(kept) |-> <<T_comment>> \o kept[i]]

\* C12 (as claimed): the header written holds one comment line per
\* non-empty line of the comments text, in order, and none for an empty
\* line; the header reader skips each of them, and read_ply does not raise
\* inside the header of a document as it was written.
C12_CommentLinesWrittenAndSkipped ==
  wres = "ok" =>
    /\ WrittenCommentLines = ExpectedCommentLines(args.comments)
    /\ \A n \in 1..Len(WrittenCommentLines) : SkippedLine(WrittenCommentLines[n])
    /\ (tamper = "none" /\ pc = "raised") => lpos > HeaderLen(dest.lines)

=============================================================================
